---- MODULE Spec2Model ----
(***************************************************************************)
(* Verification model of the beverage intent recognition service.         *)
(*                                                                         *)
(*   Spec       the LLM client: CircuitBreaker and LLMService.call_llm_api *)
(*              run by concurrent callers on one event loop.               *)
(*   SpecEngine IntentClassificationService.analyze_intent as a function   *)
(*              of the request and of the LLM client's outcome.            *)
(*   SpecApi    the Intent Analysis API (single and batch) over the cache. *)
(*   SpecAnalyze   the single-analysis endpoint as time passes the TTL.    *)
(*   SpecCache     CacheService.get/set over the remote and local tiers.   *)
(*   SpecRateLimit the rate-limit gate under the load of one client.       *)
(*   SpecHttp      the middleware stack in front of the routes.            *)
(*   SpecFallback  _fallback_analysis on keyword texts.                    *)
(*   SpecProbes    the routes that reach the LLM client: analyze, ready,   *)
(*                 model test and health, on the one breaker.              *)
(*   SpecMetrics   record_request and get_summary_stats.                   *)
(*                                                                         *)
(* Confidence values are percentages (0.6 is 60).  Wall-clock time is the  *)
(* integer `now`, in seconds.  processing_time_ms is a measurement of the  *)
(* clock only and is not modelled.                                         *)
(***************************************************************************)
EXTENDS Integers, Sequences, FiniteSets, TLC

VARIABLES
    cb,        \* llm_service.circuit_breaker: state, failure_count, last_failure_time
    now,       \* datetime.now(), seconds
    calls,     \* per caller: position inside call_llm_api and the attempt number
    last,      \* the last outcome call_llm_api returned, and the breaker state it met
    eng,       \* one analyze_intent invocation: inputs, LLM outcome, returned result
    cache,     \* cache_service._local_cache, keyed by _generate_cache_key
    bg,        \* BackgroundTasks: cache writes deferred until after the response
    resp,      \* the HTTP response sent by the step just taken (NoResp if none)
    batch,     \* the batch request being processed by analyze_batch_intent
    redis,     \* the remote store of cache_service, keyed like the local map
    cres,      \* the CacheService operation just completed (NoCacheOp if none)
    gate,      \* settings.RATE_LIMIT and metrics_manager.rate_limit_cache
    http,      \* the response the middleware stack sent for the request just served
    fb,        \* one _fallback_analysis invocation: text and returned intent
    conn,      \* the routes that use the LLM client: stage per caller, last answer
    rm         \* metrics_manager.request_metrics, and the summary just reported

coreVars == <<cb, now, calls, last, eng, cache, bg, resp, batch>>
edgeVars == <<redis, cres, gate, http, fb, conn, rm>>

vars == <<cb, now, calls, last, eng, cache, bg, resp, batch,
          redis, cres, gate, http, fb, conn, rm>>

----------------------------------------------------------------------------
(* Bounds of the model *)

NumCallers == 2        \* concurrent call_llm_api invocations
TickStep   == 30       \* seconds the clock advances per Tick
MaxTime    == 240      \* the clock stops here

(* Program constants *)

FailureThreshold == 5          \* CircuitBreaker.failure_threshold
RecoveryTimeout  == 60         \* CircuitBreaker.recovery_timeout
MaxRetries       == 2          \* settings.LLM_MAX_RETRIES
FallbackConfidence == 60       \* confidence=0.6 of _fallback_analysis

Callers == 1..NumCallers
NoTime  == -1                  \* last_failure_time = None

----------------------------------------------------------------------------
(* LLM output: the string `content`, described by what json.loads and the  *)
(* field accesses of analyze_intent make of it.                            *)
(*   shape      "notjson" | "nonobject" | "object"                         *)
(*   intent     the value of "intent", "<absent>" when the key is missing  *)
(*   conf       kind "absent" | "num" | "numstr" | "badstr" | "null",      *)
(*              val the number in percent                                  *)
(*   ents       "absent" | "empty" | "drink" | "qty_int" | "qty_str" |     *)
(*              "conf_bad" | "null" | "list"                               *)
(***************************************************************************)

IntentType == {"grab_drink", "deliver_drink", "recommend_drink",
               "cancel_order", "query_status", "modify_order"}

Content(id, shape, intent, ckind, cval, ents) ==
    [id |-> id, shape |-> shape, intent |-> intent,
     conf |-> [kind |-> ckind, val |-> cval], ents |-> ents]

NoContent == Content("", "notjson", "<absent>", "absent", 0, "absent")

Contents == {
    Content("grab90",     "object", "grab_drink",    "num",    90,  "drink"),
    Content("deliver88",  "object", "deliver_drink", "numstr", 88,  "absent"),
    Content("qty_int",    "object", "grab_drink",    "num",    92,  "qty_int"),
    Content("qty_str",    "object", "grab_drink",    "num",    92,  "qty_str"),
    Content("ent_conf",   "object", "query_status",  "num",    80,  "conf_bad"),
    Content("prose",      "notjson",   "<absent>",   "absent", 0,   "absent"),
    Content("array",      "nonobject", "<absent>",   "absent", 0,   "absent"),
    Content("no_intent",  "object", "<absent>",      "num",    90,  "empty"),
    Content("no_conf",    "object", "cancel_order",  "absent", 0,   "empty"),
    Content("bad_intent", "object", "order_pizza",   "num",    90,  "empty"),
    Content("conf_word",  "object", "modify_order",  "badstr", 0,   "empty"),
    Content("conf_null",  "object", "modify_order",  "null",   0,   "empty"),
    Content("conf_150",   "object", "recommend_drink", "num",  150, "empty"),
    Content("ents_list",  "object", "grab_drink",    "num",    90,  "list")
}

(* LLMResponse(content, success, error_message) *)
LLMResponse(content, success, error) ==
    [content |-> content, success |-> success, error |-> error]

LLMRejected == LLMResponse(NoContent, FALSE,
                 "Circuit breaker OPEN - LLM service temporarily unavailable")
LLMSuccess(c) == LLMResponse(c, TRUE, "")

(* how an attempt fails: a non-200 status, a timeout, a transport          *)
(* exception, or a 200 whose body has no choices[0].message.content (the   *)
(* KeyError is caught by the handler for Exception)                        *)
FailureKinds == {"status", "timeout", "error", "malformed200"}

LLMFailure(kind) ==
    LLMResponse(NoContent, FALSE,
        CASE kind = "status"  -> "LLM API error: status"
          [] kind = "timeout" -> "LLM API timeout"
          [] kind = "unexpected" -> "Unexpected error: exception"
          [] OTHER            -> "LLM API error: exception")

----------------------------------------------------------------------------
(* CircuitBreaker *)

CircuitBreakerInit ==
    [state |-> "CLOSED", failure_count |-> 0, last_failure_time |-> NoTime]

RecoveryElapsed(b, t) ==
    /\ b.last_failure_time # NoTime
    /\ t - b.last_failure_time > RecoveryTimeout

(* Mutant: an Open breaker admits as soon as a failure time is recorded *)
CanExecute_IgnoresClock(b, t) ==
    CASE b.state = "CLOSED" -> TRUE
      [] b.state = "OPEN"   -> b.last_failure_time # NoTime
      [] OTHER              -> TRUE

(* can_execute: the value returned *)
CanExecute(b, t) ==
    CASE b.state = "CLOSED" -> TRUE
      [] b.state = "OPEN"   -> RecoveryElapsed(b, t)
      [] OTHER              -> TRUE

(* can_execute: the breaker it leaves *)
AfterCanExecute(b, t) ==
    IF b.state = "OPEN" /\ RecoveryElapsed(b, t)
    THEN [b EXCEPT !.state = "HALF_OPEN"]
    ELSE b

(* Mutant: a success closes the breaker and keeps the failure count *)
OnSuccess_KeepsCount(b) ==
    [b EXCEPT !.state = "CLOSED"]

(* on_success *)
OnSuccess(b) ==
    [b EXCEPT !.failure_count = 0, !.state = "CLOSED"]

(* Mutant: a failure is counted and its time is not recorded *)
OnFailure_NoTime(b, t) ==
    LET c == b.failure_count + 1
    IN  [b EXCEPT !.failure_count = c,
                  !.state = IF c >= FailureThreshold THEN "OPEN" ELSE @]

(* Mutant: a failed probe (HALF_OPEN) does not refresh last_failure_time *)
OnFailure_KeepsTimeOnProbe(b, t) ==
    LET c == b.failure_count + 1
    IN  [b EXCEPT !.failure_count = c,
                  !.last_failure_time = IF b.state = "HALF_OPEN" THEN @ ELSE t,
                  !.state = IF c >= FailureThreshold THEN "OPEN" ELSE @]

(* on_failure at time t *)
OnFailure(b, t) ==
    LET c == b.failure_count + 1
    IN  [b EXCEPT !.failure_count = c,
                  !.last_failure_time = t,
                  !.state = IF c >= FailureThreshold THEN "OPEN" ELSE @]

----------------------------------------------------------------------------
(* LLMService.call_llm_api, one step per stretch between suspension points *)

NoLast == [caller |-> 0, op |-> "none", before |-> "CLOSED", resp |-> LLMRejected,
           attempts |-> 0]

(* a return of call_llm_api: what was reported to the breaker, the state   *)
(* the breaker was in, the value returned and the POSTs that were made     *)
Returned(p, op, r) ==
    [caller |-> p, op |-> op, before |-> cb.state, resp |-> r,
     attempts |-> IF calls[p].pc = "posting" THEN calls[p].attempt + 1 ELSE 0]

(* entry: the breaker check, then (if admitted) the first POST is issued *)
CallLLMApi(p) ==
    /\ calls[p].pc = "idle"
    /\ IF CanExecute(cb, now)
       THEN /\ cb' = AfterCanExecute(cb, now)
            /\ calls' = [calls EXCEPT ![p] = [pc |-> "posting", attempt |-> 0]]
            /\ UNCHANGED last
       ELSE /\ cb' = AfterCanExecute(cb, now)
            /\ last' = Returned(p, "rejected", LLMRejected)
            /\ UNCHANGED calls
    /\ UNCHANGED <<now, eng, cache, bg, resp, batch, edgeVars>>

(* admitted, but create_prompt or get_session raises before the loop: the  *)
(* outer handler reports a failure                                         *)
PrepareFails(p) ==
    /\ calls[p].pc = "idle"
    /\ CanExecute(cb, now)
    /\ cb' = OnFailure(AfterCanExecute(cb, now), now)
    /\ last' = Returned(p, "on_failure", LLMFailure("unexpected"))
    /\ UNCHANGED <<calls, now, eng, cache, bg, resp, batch, edgeVars>>

(* the POST answers 200 with a well-formed body *)
ReplyOk(p, c) ==
    /\ calls[p].pc = "posting"
    /\ cb' = OnSuccess(cb)
    /\ last' = Returned(p, "on_success", LLMSuccess(c))
    /\ calls' = [calls EXCEPT ![p] = [pc |-> "idle", attempt |-> 0]]
    /\ UNCHANGED <<now, eng, cache, bg, resp, batch, edgeVars>>

(* a client that reports every failed attempt to the breaker *)
ReplyFailRetry_ReportsFailure(p, kind) ==
    /\ calls[p].pc = "posting"
    /\ calls[p].attempt < MaxRetries
    /\ calls' = [calls EXCEPT ![p].attempt = @ + 1]
    /\ cb' = OnFailure(cb, now)
    /\ UNCHANGED <<last, now, eng, cache, bg, resp, batch, edgeVars>>

(* the POST answers non-200, times out, raises, or answers 200 with a body *)
(* that cannot be read, before the last attempt: sleep and POST again      *)
ReplyFailRetry(p, kind) ==
    /\ calls[p].pc = "posting"
    /\ calls[p].attempt < MaxRetries
    /\ calls' = [calls EXCEPT ![p].attempt = @ + 1]
    /\ UNCHANGED <<cb, last, now, eng, cache, bg, resp, batch, edgeVars>>

(* the same on the last attempt: report the failure and return *)
ReplyFailFinal(p, kind) ==
    /\ calls[p].pc = "posting"
    /\ calls[p].attempt >= MaxRetries
    /\ cb' = OnFailure(cb, now)
    /\ last' = Returned(p, "on_failure", LLMFailure(kind))
    /\ calls' = [calls EXCEPT ![p] = [pc |-> "idle", attempt |-> 0]]
    /\ UNCHANGED <<now, eng, cache, bg, resp, batch, edgeVars>>

Tick ==
    /\ now + TickStep <= MaxTime
    /\ now' = now + TickStep
    /\ UNCHANGED <<cb, calls, last, eng, cache, bg, resp, batch, edgeVars>>

----------------------------------------------------------------------------
(* Texts.  A text is a sequence of tokens; a token is a run of characters  *)
(* of the input.  Parts(tok) are the literals of the keyword and entity    *)
(* lists that occur in the token as written, LowerOf(tok) is str.lower().  *)
(* Chinese literals are written in pinyin with the prefix zh_.             *)

Parts(tok) ==
    CASE tok = "zh_songdao"     -> {"zh_songdao", "zh_song"}
      [] tok = "zh_buyaole"   -> {"zh_buyaole", "zh_buyao"}
      [] tok = "zh_naicha"     -> {"zh_naicha", "zh_cha"}
      [] tok = "zh_kekoukele" -> {"zh_kekoukele", "zh_kele"}
      [] tok = "zh_chaodabei"   -> {"zh_chaodabei", "zh_dabei"}
      [] tok = "zh_changwen"     -> {"zh_changwen", "zh_wen"}
      [] tok = "milk tea" -> {"milk tea", "tea"}
      [] tok = "2zh_bei"      -> {"2zh_bei"}
      [] OTHER            -> {tok}

LowerOf(tok) ==
    CASE tok = "Cancel"  -> "cancel"
      [] tok = "DELIVER" -> "deliver"
      [] tok = "Coke"    -> "coke"
      [] tok = "Latte"   -> "latte"
      [] OTHER           -> tok

(* `lit in user_input` *)
Contains(text, lit) == \E i \in 1..Len(text) : lit \in Parts(text[i])

(* user_input.lower() *)
LowerText(text) == [i \in 1..Len(text) |-> LowerOf(text[i])]

(* `lit in user_input.lower()` *)
ContainsLower(text, lit) == \E i \in 1..Len(text) : lit \in Parts(LowerOf(text[i]))

Texts == {
    <<"zh_geiwo", "zh_lai", "zh_yi", "zh_bei", "zh_kafei">>,
    <<"zh_ba", "zh_kafei", "zh_songdao", "zh_huiyishi">>,
    <<"zh_tuijian", "zh_dian", "zh_shenme">>,
    <<"Cancel", "my", "coffee", "order">>,
    <<"test">>
}

----------------------------------------------------------------------------
(* IntentResult and the values of its fields *)

Val(ty, v, unit) == [ty |-> ty, v |-> v, unit |-> unit]
Str(v) == Val("str", v, FALSE)
Num(v) == Val("int", v, FALSE)

NoRaw == [kind |-> "none", body |-> ""]
Raw(kind, body) == [kind |-> kind, body |-> body]

IntentResult(intent, confidence, entities, raw_text) ==
    [intent |-> intent, confidence |-> confidence,
     entities |-> entities, raw_text |-> raw_text]

----------------------------------------------------------------------------
(* IntentClassificationService._extract_entities_fallback *)

drinks == <<"zh_natie", "zh_meishi", "zh_kafei", "zh_cha", "zh_naicha", "zh_kele", "zh_xuebi", "zh_chengzhi", "zh_guozhi", "zh_shui",
            "latte", "americano", "coffee", "tea", "milk tea", "cola", "coke",
            "sprite", "juice", "water", "espresso", "cappuccino", "mocha">>
brands == <<"zh_kekoukele", "coca-cola", "coke", "zh_xuebi", "sprite", "zh_baishi", "pepsi",
            "zh_xingbake", "starbucks">>
sizes  == <<"zh_dabei", "zh_zhongbei", "zh_xiaobei", "zh_chaodabei", "zh_pingzhuang",
            "large", "medium", "small", "extra large", "bottle">>
temps  == <<"zh_re", "zh_bing", "zh_wen", "zh_changwen", "hot", "iced", "cold", "warm", "room temperature">>
prefs  == <<"zh_tishen", "zh_qingshuang", "zh_nuanwei", "zh_jieni", "energizing", "refreshing", "warming", "light">>
locations == <<"zh_huiyishi", "zh_bangongshi", "zh_qiantai", "zh_xiuxishi", "zh_jiaoshi", "zh_shitang",
               "meeting room", "office", "reception", "lounge", "classroom", "cafeteria">>
chinese_numbers == <<"zh_yi", "zh_liang", "zh_er", "zh_san", "zh_si", "zh_wu">>
chinese_values  == <<"1", "2", "2", "3", "4", "5">>

(* first entry of the list found in the lower-cased text, "" if none *)
FirstIn(list, text) ==
    LET hits == {i \in 1..Len(list) : ContainsLower(text, list[i])}
    IN  IF hits = {} THEN ""
        ELSE list[CHOOSE i \in hits : \A j \in hits : i <= j]

(* the quantity: a Chinese numeral of the text as written, else the number *)
(* of the leftmost digits-and-unit match in the lower-cased text           *)
QuantityOf(text) ==
    LET hits == {i \in 1..Len(chinese_numbers) : Contains(text, chinese_numbers[i])}
        digit == {i \in 1..Len(text) : LowerOf(text[i]) = "2zh_bei"}
    IN  IF hits # {} THEN chinese_values[CHOOSE i \in hits : \A j \in hits : i <= j]
        ELSE IF digit # {} THEN "2"
        ELSE ""

ExtractEntitiesFallback(text) ==
    LET found == [drink_name  |-> FirstIn(drinks, text),
                  brand       |-> FirstIn(brands, text),
                  size        |-> FirstIn(sizes, text),
                  temperature |-> FirstIn(temps, text),
                  preference  |-> FirstIn(prefs, text),
                  location    |-> FirstIn(locations, text),
                  quantity    |-> QuantityOf(text)]
        keys  == {k \in DOMAIN found : found[k] # ""}
    IN  [k \in keys |-> IF k = "quantity" THEN Num(found[k]) ELSE Str(found[k])]

----------------------------------------------------------------------------
(* IntentClassificationService._fallback_analysis *)

deliver_keywords   == {"zh_song", "zh_disong", "zh_songdao", "zh_songgei", "zh_nagei", "deliver", "bring", "take to"}
recommend_keywords == {"zh_tuijian", "zh_jianyi", "zh_shenme", "zh_youmeiyou", "zh_qingshuang", "zh_tishen", "zh_nuanwei", "zh_jieni",
                       "recommend", "suggest", "what", "refreshing", "energizing"}
cancel_keywords    == {"zh_quxiao", "zh_suanle", "zh_buyaole", "zh_chexiao", "zh_buyao", "cancel", "never mind", "forget"}
query_keywords     == {"zh_haolema", "zh_zuohaole", "zh_wanchengle", "zh_zhuangtai", "zh_jindu", "zh_zenmeyangle",
                       "ready", "done", "finished", "status", "how"}
modify_keywords    == {"zh_gaicheng", "zh_huancheng", "zh_xiugai", "zh_gaiwei", "zh_biancheng", "change", "modify", "switch"}

AnyIn(keywords, text) == \E k \in keywords : Contains(text, k)

(* Mutant: the keyword that occurs first in the text decides *)
FallbackIntent_FirstOccurrence(text) ==
    LET SetOf(tok) ==
            IF \E k \in deliver_keywords : k \in Parts(tok) THEN "deliver_drink"
            ELSE IF \E k \in recommend_keywords : k \in Parts(tok) THEN "recommend_drink"
            ELSE IF \E k \in cancel_keywords : k \in Parts(tok) THEN "cancel_order"
            ELSE IF \E k \in query_keywords : k \in Parts(tok) THEN "query_status"
            ELSE IF \E k \in modify_keywords : k \in Parts(tok) THEN "modify_order"
            ELSE "grab_drink"
        hits == {i \in 1..Len(text) : SetOf(text[i]) # "grab_drink"}
    IN  IF hits = {} THEN "grab_drink"
        ELSE SetOf(text[CHOOSE i \in hits : \A j \in hits : i <= j])

FallbackIntent(text) ==
    IF AnyIn(deliver_keywords, text) THEN "deliver_drink"
    ELSE IF AnyIn(recommend_keywords, text) THEN "recommend_drink"
    ELSE IF AnyIn(cancel_keywords, text) THEN "cancel_order"
    ELSE IF AnyIn(query_keywords, text) THEN "query_status"
    ELSE IF AnyIn(modify_keywords, text) THEN "modify_order"
    ELSE "grab_drink"

(* the intent and the entities of every text of the model, computed once *)
FallbackOf ==
    [t \in Texts |-> [intent   |-> FallbackIntent(t),
                      entities |-> ExtractEntitiesFallback(t)]]

FallbackAnalysis(text, error_info, include_raw) ==
    IntentResult(FallbackOf[text].intent, FallbackConfidence,
                 FallbackOf[text].entities,
                 IF include_raw THEN Raw("fallback", error_info) ELSE NoRaw)

----------------------------------------------------------------------------
(* IntentClassificationService.analyze_intent *)

(* the "entities" value of the LLM output *)
ContentEntities(c) ==
    CASE c.ents = "drink"    -> [k \in {"drink_name"} |-> Str("zh_kafei")]
      [] c.ents = "qty_int"  -> [k \in {"drink_name", "quantity"} |->
                                    IF k = "quantity" THEN Num("2") ELSE Str("Coke")]
      [] c.ents = "qty_str"  -> [k \in {"drink_name", "quantity"} |->
                                    IF k = "quantity" THEN Str("two") ELSE Str("Coke")]
      [] c.ents = "conf_bad" -> [k \in {"confidence"} |-> Val("float", "1.5", FALSE)]
      [] OTHER               -> <<>>

(* Mutant: a missing "confidence" key is read as 0.5 instead of raising *)
ParseOutcome_DefaultsConfidence(c) ==
    CASE c.shape = "notjson"          -> "parse_error"
      [] c.shape = "nonobject"        -> "unexpected"
      [] c.intent = "<absent>"        -> "parse_error"
      [] c.intent \notin IntentType   -> "parse_error"
      [] c.conf.kind = "absent"       -> "ok"
      [] c.conf.kind = "null"         -> "unexpected"
      [] c.conf.kind = "badstr"       -> "parse_error"
      [] c.conf.val < 0 \/ c.conf.val > 100 -> "parse_error"
      [] c.ents \in {"null", "list"}  -> "parse_error"
      [] OTHER                        -> "ok"

(* how the parsing block ends: "ok", "parse_error" (JSONDecodeError,       *)
(* KeyError, ValueError: the inner handler) or "unexpected" (any other     *)
(* exception: the outer handler)                                           *)
ParseOutcome(c) ==
    CASE c.shape = "notjson"          -> "parse_error"   \* json.loads
      [] c.shape = "nonobject"        -> "unexpected"    \* result_data["intent"]: TypeError
      [] c.intent = "<absent>"        -> "parse_error"   \* KeyError
      [] c.intent \notin IntentType   -> "parse_error"   \* IntentType(...): ValueError
      [] c.conf.kind = "absent"       -> "parse_error"   \* KeyError
      [] c.conf.kind = "null"         -> "unexpected"    \* float(None): TypeError
      [] c.conf.kind = "badstr"       -> "parse_error"   \* float("high"): ValueError
      [] c.conf.val < 0 \/ c.conf.val > 100 -> "parse_error" \* IntentResult: ValidationError
      [] c.ents \in {"null", "list"}  -> "parse_error"   \* IntentResult: ValidationError
      [] OTHER                        -> "ok"

AnalyzeIntent(text, include_raw, llm) ==
    IF llm.success
    THEN CASE ParseOutcome(llm.content) = "ok" ->
                IntentResult(llm.content.intent, llm.content.conf.val,
                             ContentEntities(llm.content),
                             IF include_raw THEN Raw("llm", llm.content.id) ELSE NoRaw)
           [] ParseOutcome(llm.content) = "parse_error" ->
                FallbackAnalysis(text, "LLM parsing error", include_raw)
           [] OTHER ->
                FallbackAnalysis(text, "Unexpected error", include_raw)
    ELSE FallbackAnalysis(text, llm.error, include_raw)

(* IntentClassificationService.validate_result *)
ValidateResult(r) ==
    /\ r.intent \in IntentType
    /\ 0 <= r.confidence /\ r.confidence <= 100
    /\ \A k \in DOMAIN r.entities :
          /\ k = "quantity"   => r.entities[k].ty \in {"int", "float", "bool"}
          /\ k = "confidence" => (r.entities[k].ty \in {"int", "float", "bool"}
                                  /\ r.entities[k].unit)

----------------------------------------------------------------------------
(* One analyze_intent invocation on every input and every outcome of       *)
(* call_llm_api                                                            *)

LLMResponses ==
    {LLMRejected} \cup {LLMFailure(k) : k \in FailureKinds}
                  \cup {LLMSuccess(c) : c \in Contents}

NoResult == IntentResult("<none>", 0, <<>>, NoRaw)

EngineInputs ==
    [text : Texts, raw : BOOLEAN, llm : LLMResponses, pc : {"called"}, out : {NoResult}]

EngineReturn ==
    /\ eng.pc = "called"
    /\ eng' = [eng EXCEPT !.pc = "returned",
                          !.out = AnalyzeIntent(eng.text, eng.raw, eng.llm)]
    /\ UNCHANGED <<cb, now, calls, last, cache, bg, resp, batch, edgeVars>>

EngineCall ==
    /\ eng.pc = "returned"
    /\ eng' \in EngineInputs
    /\ UNCHANGED <<cb, now, calls, last, cache, bg, resp, batch, edgeVars>>

----------------------------------------------------------------------------
(* CacheService: the local tier (_local_cache and _local_cache_timestamps) *)

CacheTTL == 3600               \* settings.CACHE_TTL

NoContext == <<"<None>">>      \* context = None

(* _generate_cache_key: the string "{user_input}:{context or ''}" that is  *)
(* hashed                                                                  *)
GenerateCacheKey(text, context) ==
    text \o <<":">> \o (IF context = NoContext THEN <<>> ELSE context)

Expired(entry, t) == t - entry.ts > CacheTTL

(* CacheService.get: the value returned, NoResult for None *)
CacheGet(c, text, context, t) ==
    LET k == GenerateCacheKey(text, context)
    IN  IF k \in DOMAIN c /\ ~Expired(c[k], t) THEN c[k].data ELSE NoResult

(* Mutant: an expired entry is reported absent but left in the map *)
AfterCacheGet_KeepsExpired(c, text, context, t) == c

(* CacheService.get: the local map it leaves (an expired entry is deleted) *)
AfterCacheGet(c, text, context, t) ==
    LET k == GenerateCacheKey(text, context)
    IN  IF k \in DOMAIN c /\ Expired(c[k], t)
        THEN [j \in DOMAIN c \ {k} |-> c[j]]
        ELSE c

(* CacheService.set followed by _cleanup_local_cache *)
CacheSet(c, text, result, context, t) ==
    LET k == GenerateCacheKey(text, context)
        stored == [j \in DOMAIN c \cup {k} |->
                      IF j = k THEN [data |-> result, ts |-> t] ELSE c[j]]
    IN  [j \in {j \in DOMAIN stored : ~Expired(stored[j], t)} |-> stored[j]]

----------------------------------------------------------------------------
(* Intent Analysis API *)

MaxBatch   == 2        \* inputs of a batch request
MaxPending == 2        \* deferred cache writes not yet run

ApiTexts    == {<<"zh_ba", "zh_kafei", "zh_songdao", "zh_huiyishi">>}
ApiContexts == {NoContext}
Requests    == [text : ApiTexts, context : ApiContexts, raw : BOOLEAN]

(* what call_llm_api answers to the engine while a request is handled *)
ApiLLMResponses ==
    {LLMRejected} \cup
    {LLMSuccess(c) : c \in {c \in Contents : c.id = "qty_str"}}

(* request.state.request_id, a uuid4 drawn per request *)
RequestIds == {"req-1", "req-2"}

(* the exception a failing engine raises, as the tests inject it *)
EngineError == "Analysis failed"

(* IntentAnalysisResponse: an IntentResult with cached; `src` is the index *)
(* of the batch input whose task produced it (0 outside a batch)           *)
Item(result, cached, src) == [result |-> result, cached |-> cached, src |-> src]

ErrorItem(text, src) ==
    Item(IntentResult("grab_drink", 0, [k \in {"error"} |-> Str(text)], NoRaw),
         FALSE, src)

NoResp ==
    [endpoint |-> "none", inputs |-> <<>>, parallel |-> FALSE, raised |-> FALSE,
     order |-> <<>>,   \* the order in which the inputs of a batch were processed
     status |-> 0, error |-> "", message |-> "", results |-> <<>>,
     request_id |-> "",
     engine_calls |-> 0,   \* analyze_intent invocations made for this response
     total_processed |-> 0, success_count |-> 0, error_count |-> 0]

(* Mutant: the response of a cache hit does not say it was cached *)
AnalyzeOk_NeverCached(req, rid, item) ==
    [NoResp EXCEPT !.endpoint = "analyze", !.inputs = <<req>>,
                   !.status = 200, !.results = <<Item(item.result, FALSE, item.src)>>,
                   !.request_id = rid,
                   !.engine_calls = IF item.cached THEN 0 ELSE 1]

(* a 200 of POST /v1/intent/analyze *)
AnalyzeOk(req, rid, item) ==
    [NoResp EXCEPT !.endpoint = "analyze", !.inputs = <<req>>,
                   !.status = 200, !.results = <<item>>, !.request_id = rid,
                   !.engine_calls = IF item.cached THEN 0 ELSE 1]

(* http_exception_handler on an HTTPException raised by the route *)
HttpExceptionResponse(endpoint, inputs, raised, status, detail) ==
    [NoResp EXCEPT !.endpoint = endpoint, !.inputs = inputs, !.raised = raised,
                   !.status = status, !.error = "HTTPException", !.message = detail]

Write(req, result) == [text |-> req.text, context |-> req.context, result |-> result]

(* Mutant: the route stores the result itself, before it responds *)
AnalyzeIntentEndpoint_WritesInline(req, rid, llm, fault) ==
    LET hit    == CacheGet(cache, req.text, req.context, now)
        result == AnalyzeIntent(req.text, req.raw, llm)
        read   == AfterCacheGet(cache, req.text, req.context, now)
    IN  /\ IF hit # NoResult
           THEN /\ resp' = AnalyzeOk(req, rid, Item(hit, TRUE, 0))
                /\ cache' = read
           ELSE IF fault
           THEN /\ resp' = [HttpExceptionResponse("analyze", <<req>>, TRUE, 500,
                                 "Internal server error during intent analysis")
                              EXCEPT !.request_id = rid, !.engine_calls = 1]
                /\ cache' = read
           ELSE IF ~ValidateResult(result)
           THEN /\ resp' = [HttpExceptionResponse("analyze", <<req>>, FALSE, 500,
                                 "Intent analysis produced invalid result")
                              EXCEPT !.request_id = rid, !.engine_calls = 1]
                /\ cache' = read
           ELSE /\ cache' = CacheSet(read, req.text, result, req.context, now)
                /\ resp' = AnalyzeOk(req, rid, Item(result, FALSE, 0))
        /\ UNCHANGED <<bg, batch, cb, now, calls, last, eng, edgeVars>>

(* analyze_intent of api/v1/intent.py, to the response; the cache write is *)
(* left in the background tasks.  `fault`: the engine raises.              *)
AnalyzeIntentEndpoint(req, rid, llm, fault) ==
    LET hit    == CacheGet(cache, req.text, req.context, now)
        result == AnalyzeIntent(req.text, req.raw, llm)
    IN  /\ cache' = AfterCacheGet(cache, req.text, req.context, now)
        /\ IF hit # NoResult
           THEN /\ resp' = AnalyzeOk(req, rid, Item(hit, TRUE, 0))
                /\ UNCHANGED bg
           ELSE IF fault
           THEN /\ resp' = [HttpExceptionResponse("analyze", <<req>>, TRUE, 500,
                                 "Internal server error during intent analysis")
                              EXCEPT !.request_id = rid, !.engine_calls = 1]
                /\ UNCHANGED bg
           ELSE IF ~ValidateResult(result)
           THEN /\ resp' = [HttpExceptionResponse("analyze", <<req>>, FALSE, 500,
                                 "Intent analysis produced invalid result")
                              EXCEPT !.request_id = rid, !.engine_calls = 1]
                /\ UNCHANGED bg
           ELSE /\ Cardinality(bg \cup {Write(req, result)}) <= MaxPending
                /\ bg' = bg \cup {Write(req, result)}
                /\ resp' = AnalyzeOk(req, rid, Item(result, FALSE, 0))
        /\ UNCHANGED <<batch, cb, now, calls, last, eng, edgeVars>>

(* a deferred cache_service.set runs *)
BackgroundCacheSet(w) ==
    /\ w \in bg
    /\ cache' = CacheSet(cache, w.text, w.result, w.context, now)
    /\ bg' = bg \ {w}
    /\ resp' = NoResp
    /\ UNCHANGED <<batch, cb, now, calls, last, eng, edgeVars>>

----------------------------------------------------------------------------
(* analyze_batch_intent *)

NoBatch == [pc |-> "idle", inputs |-> <<>>, parallel |-> FALSE,
            done |-> <<>>, order |-> <<>>, writes |-> {}]

BatchInputs == UNION {[1..n -> Requests] : n \in 1..MaxBatch}

Pending == Item(NoResult, FALSE, 0)

(* the request arrives; in parallel mode one task per input is created *)
BatchStart(inputs, parallel) ==
    /\ batch.pc = "idle"
    /\ batch' = [pc |-> "running", inputs |-> inputs, parallel |-> parallel,
                 done |-> [i \in 1..Len(inputs) |-> Pending],
                 order |-> <<>>, writes |-> {}]
    /\ resp' = NoResp
    /\ UNCHANGED <<cache, bg, cb, now, calls, last, eng, edgeVars>>

(* process_single_input for input i: the value it returns *)
ProcessSingleInput(c, req, llm, fault, i) ==
    LET hit == CacheGet(c, req.text, req.context, now)
    IN  IF hit # NoResult THEN Item(hit, TRUE, i)
        ELSE IF fault THEN ErrorItem(EngineError, i)
        ELSE Item(AnalyzeIntent(req.text, req.raw, llm), FALSE, i)

(* process_single_input for input i: the cache writes it schedules *)
ScheduledWrites(c, req, llm, fault) ==
    IF CacheGet(c, req.text, req.context, now) # NoResult \/ fault THEN {}
    ELSE {Write(req, AnalyzeIntent(req.text, req.raw, llm))}

(* one input is processed: any unfinished one in parallel mode, the next   *)
(* one in sequential mode                                                  *)
ProcessItem(i, llm, fault) ==
    /\ batch.pc = "running"
    /\ i \in 1..Len(batch.inputs)
    /\ batch.done[i] = Pending
    /\ batch.parallel \/ \A j \in 1..(i - 1) : batch.done[j] # Pending
    /\ cache' = AfterCacheGet(cache, batch.inputs[i].text, batch.inputs[i].context, now)
    /\ batch' = [batch EXCEPT
          !.done[i] = ProcessSingleInput(cache, batch.inputs[i], llm, fault, i),
          !.order = Append(@, i),
          !.writes = @ \cup ScheduledWrites(cache, batch.inputs[i], llm, fault)]
    /\ resp' = NoResp
    /\ UNCHANGED <<bg, cb, now, calls, last, eng, edgeVars>>

(* Mutant: the results are returned in the order the tasks completed *)
Gather_CompletionOrder(done, order) == [i \in 1..Len(order) |-> done[order[i]]]

(* asyncio.gather: the results in the order of the tasks *)
Gather(done, order) == [i \in 1..Len(done) |-> done[i]]

(* whether a collected result is an exception: process_single_input        *)
(* catches every Exception and returns a response instead                  *)
IsException(item) == FALSE

(* all inputs are processed: count, respond, hand the writes over *)
BatchRespond ==
    LET results == Gather(batch.done, batch.order)
        n       == Len(batch.inputs)
        errors  == Cardinality({i \in 1..Len(results) : IsException(results[i])})
    IN  /\ batch.pc = "running"
        /\ \A i \in 1..n : batch.done[i] # Pending
        /\ Cardinality(bg \cup batch.writes) <= MaxPending
        /\ resp' = [NoResp EXCEPT
              !.endpoint = "batch", !.inputs = batch.inputs,
              !.parallel = batch.parallel, !.order = batch.order, !.status = 200,
              !.raised = \E i \in 1..n : "error" \in DOMAIN batch.done[i].result.entities,
              !.results = results,
              !.total_processed = n,
              !.success_count = Len(results) - errors,
              !.error_count = errors]
        /\ bg' = bg \cup batch.writes
        /\ batch' = NoBatch
        /\ UNCHANGED <<cache, cb, now, calls, last, eng, edgeVars>>

----------------------------------------------------------------------------
(* CacheService over both tiers: the remote store (Redis) is tried first,  *)
(* the local map serves when the remote store is unavailable or misses.    *)

CacheTickStep == 1800  \* seconds the clock advances per CacheTick
CacheMaxTime  == 5400  \* the clock of the cache stops here

CacheTexts    == {<<"tea">>}
CacheContexts == {NoContext, <<>>, <<"hot">>}     \* None, "", "hot"
CacheResults  == {
    IntentResult("grab_drink", 90,
                 [k \in {"drink_name", "quantity"} |->
                     IF k = "quantity" THEN Num(2) ELSE Str("tea")],
                 NoRaw),
    IntentResult("deliver_drink", FallbackConfidence, <<>>,
                 Raw("fallback", "Circuit breaker OPEN"))
}

(* result.dict(): the enum member of intent, the other fields as they are *)
ResultDict(r) ==
    [intent |-> <<"IntentType", r.intent>>, confidence |-> r.confidence,
     entities |-> r.entities, raw_text |-> r.raw_text]

(* IntentResult built from the dict: intent is validated back into the     *)
(* enumeration                                                             *)
ResultFromDict(d) ==
    IntentResult(IF Len(d.intent) = 2 THEN d.intent[2] ELSE d.intent[1],
                 d.confidence, d.entities, d.raw_text)

(* json.dumps(data, ensure_ascii=False): a str-enum member is written as   *)
(* its value, None as null, every other value as its JSON literal          *)
JsonDumps(d) ==
    [intent |-> <<d.intent[2]>>, confidence |-> d.confidence,
     entities |-> [k \in DOMAIN d.entities |->
                      [json |-> IF d.entities[k].ty = "str" THEN "string"
                                ELSE IF d.entities[k].ty = "bool" THEN "boolean"
                                ELSE "number",
                       lit |-> d.entities[k]]],
     raw_text |-> IF d.raw_text = NoRaw THEN [json |-> "null", lit |-> NoRaw]
                  ELSE [json |-> "string", lit |-> d.raw_text]]

(* json.loads *)
JsonLoads(j) ==
    [intent |-> j.intent, confidence |-> j.confidence,
     entities |-> [k \in DOMAIN j.entities |-> j.entities[k].lit],
     raw_text |-> IF j.raw_text.json = "null" THEN NoRaw ELSE j.raw_text.lit]

NoJson == [intent |-> <<>>]

(* SETEX keeps a key for ttl seconds *)
RedisLive(entry, t) == t - entry.ts < CacheTTL

(* redis_client.get(cache_key) *)
RedisGet(r, k, t) ==
    IF k \in DOMAIN r /\ RedisLive(r[k], t) THEN r[k].data ELSE NoJson

(* redis_client.setex(cache_key, ttl, json); keys past their ttl are gone *)
RedisSetex(r, k, data, t) ==
    LET stored == [j \in DOMAIN r \cup {k} |->
                      IF j = k THEN [data |-> data, ts |-> t] ELSE r[j]]
    IN  [j \in {j \in DOMAIN stored : RedisLive(stored[j], t)} |-> stored[j]]

(* an operation as observed by its caller; `branch` names the branch of    *)
(* the code that ended it                                                  *)
CacheOp(op, text, context, result, tier, branch) ==
    [op |-> op, text |-> text, context |-> context, result |-> result,
     tier |-> tier, branch |-> branch]

NoCacheOp == CacheOp("none", <<>>, NoContext, NoResult, "none", "none")

(* CacheService.get; `up`: get_redis_client returns a client and the       *)
(* command does not raise                                                  *)
CacheServiceGet(text, context, up) ==
    LET k      == GenerateCacheKey(text, context)
        remote == IF up THEN RedisGet(redis, k, now) ELSE NoJson
    IN  /\ IF remote # NoJson
           THEN /\ cres' = CacheOp("get", text, context,
                                   ResultFromDict(JsonLoads(remote)), "redis", "hit")
                /\ UNCHANGED cache
           ELSE /\ cres' = CacheOp("get", text, context,
                                   CacheGet(cache, text, context, now), "local",
                                   IF k \notin DOMAIN cache THEN "miss"
                                   ELSE IF Expired(cache[k], now) THEN "expired"
                                   ELSE "hit")
                /\ cache' = AfterCacheGet(cache, text, context, now)
        /\ UNCHANGED <<redis, cb, now, calls, last, eng, bg, resp, batch, gate, http, fb, conn, rm>>

(* CacheService.set; `up` as above.  The write is "fresh" when neither     *)
(* tier held the text under any context before it                          *)
CacheServiceSet(text, result, context, up) ==
    LET k     == GenerateCacheKey(text, context)
        fresh == \A c \in CacheContexts :
                    /\ GenerateCacheKey(text, c) \notin DOMAIN cache
                    /\ GenerateCacheKey(text, c) \notin DOMAIN redis
    IN  /\ IF up
           THEN /\ redis' = RedisSetex(redis, k, JsonDumps(ResultDict(result)), now)
                /\ UNCHANGED cache
           ELSE /\ cache' = CacheSet(cache, text, result, context, now)
                /\ UNCHANGED redis
        /\ cres' = CacheOp("set", text, context, result,
                           IF up THEN "redis" ELSE "local",
                           IF fresh THEN "fresh" ELSE "overwrite")
        /\ UNCHANGED <<cb, now, calls, last, eng, bg, resp, batch, gate, http, fb, conn, rm>>

(* time passes; the operation last recorded is no longer the latest event *)
CacheTick ==
    /\ now + CacheTickStep <= CacheMaxTime
    /\ now' = now + CacheTickStep
    /\ cres' = NoCacheOp
    /\ UNCHANGED <<redis, cache, cb, calls, last, eng, bg, resp, batch, gate, http, fb, conn, rm>>

----------------------------------------------------------------------------
(* The per-request pipeline of main.py: rate_limiting_middleware is added  *)
(* last and therefore runs outermost, request_logging_middleware runs      *)
(* inside it, the routes run innermost.                                    *)

RateTickStep == 31     \* seconds the clock advances per RateTick
RateMaxTime  == 62     \* the clock of the pipeline stops here
BigLimit     == 101    \* a configured RATE_LIMIT above the deque's capacity
MaxLoad      == 102    \* requests one client sends inside one window

RateWindow       == 60     \* check_rate_limit: seconds a request is counted
DequeMaxLen      == 100    \* deque(maxlen=100) of rate_limit_cache
DefaultRateLimit == 100    \* settings.RATE_LIMIT

IPs == {"10.0.0.1", "10.0.0.2"}

(* Mutant: /metrics is not on the list *)
ExemptPaths_WithoutMetrics == {"/v1/health", "/health"}

ExemptPaths == {"/v1/health", "/health", "/metrics"}
Paths       == ExemptPaths \cup {"/v1/ready", "/v1/intent/analyze"}

(* rate_limit_cache[client_ip]: a missing key reads as an empty deque *)
RequestsOf(m, ip) == IF ip \in DOMAIN m THEN m[ip] ELSE <<>>

(* `while client_requests and current_time - client_requests[0] > 60` *)
RECURSIVE PopOld(_, _)
PopOld(q, t) ==
    IF q # <<>> /\ t - Head(q) > RateWindow THEN PopOld(Tail(q), t) ELSE q

(* Mutant: a deque without maxlen *)
DequeAppend_Unbounded(q, x) == Append(q, x)

(* deque.append on a deque with maxlen: a full deque drops its left end *)
DequeAppend(q, x) ==
    IF Len(q) >= DequeMaxLen THEN Append(Tail(q), x) ELSE Append(q, x)

(* MetricsManager.check_rate_limit: the value returned *)
CheckRateLimit(m, ip, limit, t) == Len(PopOld(RequestsOf(m, ip), t)) < limit

(* Mutant: the time of a rejected request is recorded as well *)
AfterCheckRateLimit_RecordsRejected(m, ip, limit, t) ==
    LET q == PopOld(RequestsOf(m, ip), t)
    IN  [j \in DOMAIN m \cup {ip} |-> IF j = ip THEN DequeAppend(q, t) ELSE m[j]]

(* MetricsManager.check_rate_limit: rate_limit_cache afterwards *)
AfterCheckRateLimit(m, ip, limit, t) ==
    LET q == PopOld(RequestsOf(m, ip), t)
    IN  [j \in DOMAIN m \cup {ip} |->
            IF j = ip THEN (IF Len(q) < limit THEN DequeAppend(q, t) ELSE q)
            ELSE m[j]]

(* history: the times, still inside the window, at which requests of ip    *)
(* were let through by the gate                                            *)
AdmittedAfter(h, ip, ok, t) ==
    LET old  == RequestsOf(h, ip)
        kept == SelectSeq(old, LAMBDA x : t - x <= RateWindow)
    IN  [j \in DOMAIN h \cup {ip} |->
            IF j = ip THEN (IF ok THEN Append(kept, t) ELSE kept) ELSE h[j]]

GateInit(limit) == [limit |-> limit, requests |-> <<>>, admitted |-> <<>>]

HttpResponse(path, status, body, llm_connection, cache_connection, engine) ==
    [ip |-> "", path |-> path, status |-> status, body |-> body,
     llm_connection |-> llm_connection, cache_connection |-> cache_connection,
     engine |-> engine, headers |-> {}, request_id |-> ""]

NoHttp == HttpResponse("", 0, "", FALSE, FALSE, "none")

(* Mutant: the service is healthy only while the LLM is reachable *)
GetHealth_RequiresLLM(path, llm_connected, cache_healthy) ==
    HttpResponse(path, IF llm_connected THEN 200 ELSE 503,
                 IF llm_connected THEN "healthy" ELSE "unhealthy",
                 llm_connected, cache_healthy, "none")

(* get_health of api/v1/health.py, also behind the legacy /health *)
GetHealth(path, llm_connected, cache_healthy) ==
    LET is_healthy == llm_connected \/ TRUE
    IN  HttpResponse(path, IF is_healthy THEN 200 ELSE 503,
                     IF is_healthy THEN "healthy" ELSE "unhealthy",
                     llm_connected, cache_healthy, "none")

(* Mutant: readiness requires an LLM-derived result *)
GetReadiness_RequiresLLM(llm, fault) ==
    IF fault \/ ~llm.success
    THEN HttpResponse("/v1/ready", 503, "not_ready", FALSE, FALSE,
                      IF fault THEN "raised" ELSE "returned")
    ELSE HttpResponse("/v1/ready", 200, "ready", FALSE, FALSE, "returned")

(* get_readiness: analyze_intent("test") behind a try/except.  `fault`:    *)
(* the engine call raises.                                                 *)
GetReadiness(llm, fault) ==
    LET test_result == AnalyzeIntent(<<"test">>, FALSE, llm)
    IN  IF fault
        THEN HttpResponse("/v1/ready", 503, "not_ready", FALSE, FALSE, "raised")
        ELSE IF test_result # NoResult
        THEN HttpResponse("/v1/ready", 200, "ready", FALSE, FALSE, "returned")
        ELSE HttpResponse("/v1/ready", 503, "not_ready", FALSE, FALSE, "returned")

(* the /metrics route, and any other route as the status it answers *)
OtherRoute(path, status) == HttpResponse(path, status, "", FALSE, FALSE, "none")

(* request_logging_middleware: request id, call_next, the two headers *)
RequestLoggingMiddleware(r, rid) ==
    [r EXCEPT !.headers = @ \cup {"X-Request-ID", "X-Process-Time"},
              !.request_id = rid]

(* the JSONResponse rate_limiting_middleware returns itself *)
RateLimitExceeded(path) == HttpResponse(path, 429, "RateLimitExceeded", FALSE, FALSE, "none")

(* rate_limiting_middleware around the rest of the stack; `route` is what  *)
(* the route answers if it is reached                                      *)
Serve(ip, rid, route) ==
    LET ok == CheckRateLimit(gate.requests, ip, gate.limit, now)
    IN  /\ IF route.path \in ExemptPaths
           THEN /\ http' = [RequestLoggingMiddleware(route, rid) EXCEPT !.ip = ip]
                /\ UNCHANGED gate
           ELSE /\ gate' = [gate EXCEPT
                      !.requests = AfterCheckRateLimit(@, ip, gate.limit, now),
                      !.admitted = AdmittedAfter(@, ip, ok, now)]
                /\ http' = IF ok
                           THEN [RequestLoggingMiddleware(route, rid) EXCEPT !.ip = ip]
                           ELSE [RateLimitExceeded(route.path) EXCEPT !.ip = ip]
        /\ UNCHANGED <<coreVars, redis, cres, fb, conn, rm>>

ServeHealth(ip, rid, path, llm_connected, cache_healthy) ==
    /\ path \in {"/v1/health", "/health"}
    /\ Serve(ip, rid, GetHealth(path, llm_connected, cache_healthy))

ServeReady(ip, rid, llm, fault) == Serve(ip, rid, GetReadiness(llm, fault))

ServeOther(ip, rid, path, status) ==
    /\ path \in {"/metrics", "/v1/intent/analyze"}
    /\ Serve(ip, rid, OtherRoute(path, status))

RateTick ==
    /\ now + RateTickStep <= RateMaxTime
    /\ now' = now + RateTickStep
    /\ UNCHANGED <<cb, calls, last, eng, cache, bg, resp, batch, edgeVars>>

----------------------------------------------------------------------------
(* _fallback_analysis on texts assembled from keywords of the five sets    *)

MaxTokens == 3         \* tokens of a text given to the fallback

FallbackTokens == {"zh_songdao", "deliver", "zh_tuijian", "what", "zh_quxiao",
                   "cancel", "status", "zh_gaicheng", "zh_kafei", "Cancel"}

FallbackTexts == UNION {[1..n -> FallbackTokens] : n \in 1..MaxTokens}

NoFallback == [text |-> <<>>, pc |-> "idle", intent |-> "<none>"]

FallbackInputs == [text : FallbackTexts, pc : {"called"}, intent : {"<none>"}]

FallbackReturn ==
    /\ fb.pc = "called"
    /\ fb' = [fb EXCEPT !.pc = "returned", !.intent = FallbackIntent(fb.text)]
    /\ UNCHANGED <<coreVars, redis, cres, gate, http, conn, rm>>

----------------------------------------------------------------------------
(* The routes that reach the one LLMService instance `llm_service`:        *)
(*   analyze     POST /v1/intent/analyze  -> analyze_intent -> call_llm_api *)
(*   ready       GET /v1/ready            -> analyze_intent("test")         *)
(*   model_test  POST /v1/models/{id}/test -> test_connection, then         *)
(*               call_llm_api when the probe answered 200                   *)
(*   health      GET /v1/health           -> test_connection                *)
(* A caller runs one route at a time.  conn.stage[p] is its position:       *)
(* "none", "probing" (inside test_connection), "connected" (test_model     *)
(* between the probe and call_llm_api) or "calling" (inside call_llm_api). *)
(* The return of test_connection and the entry of call_llm_api are one     *)
(* stretch of test_model; they are two steps here, which adds              *)
(* interleavings and removes none.                                         *)

LLMRoutes   == {"analyze", "ready", "model_test"}
ProbeRoutes == {"ready", "model_test"}

UserText  == <<"zh_ba", "zh_kafei", "zh_songdao", "zh_huiyishi">>
ReadyText == <<"test">>

NoLLM == LLMResponse(NoContent, FALSE, "<no call>")

(* what a route handler got back: from call_llm_api (llm, attempts) or     *)
(* from test_connection (connectivity); `before` is the breaker state the  *)
(* returning step met, `result` what analyze_intent made of llm            *)
Answer(p, route, llm, attempts, connectivity) ==
    [caller |-> p, route |-> route, llm |-> llm, attempts |-> attempts,
     connectivity |-> connectivity, before |-> cb.state,
     result |-> CASE route = "analyze" -> AnalyzeIntent(UserText, FALSE, llm)
                  [] route = "ready"   -> AnalyzeIntent(ReadyText, FALSE, llm)
                  [] OTHER             -> NoResult]

NoAnswer == [caller |-> 0, route |-> "none", llm |-> NoLLM, attempts |-> 0,
             connectivity |-> "none", before |-> "CLOSED", result |-> NoResult]

(* probe_failures: the failures reported in a row by ready and model_test  *)
(* calls, with no success and no failure of an analyze call since          *)
NoConn == [stage  |-> [p \in Callers |-> "none"],
           route  |-> [p \in Callers |-> "none"],
           probe_failures |-> 0,
           answer |-> NoAnswer]

(* test_connection is entered: GET /models is issued *)
TestConnection(p, route) ==
    /\ route \in {"health", "model_test"}
    /\ conn.stage[p] = "none"
    /\ conn' = [conn EXCEPT !.stage[p] = "probing", !.route[p] = route]
    /\ UNCHANGED <<coreVars, redis, cres, gate, http, fb, rm>>

(* Mutant: the probe reports its outcome to the breaker *)
TestConnectionReturn_ReportsToBreaker(p, ok) ==
    /\ conn.stage[p] = "probing"
    /\ conn' = [conn EXCEPT
                  !.stage[p] = IF ok /\ conn.route[p] = "model_test"
                               THEN "connected" ELSE "none",
                  !.route[p] = IF ok /\ conn.route[p] = "model_test"
                               THEN @ ELSE "none",
                  !.answer = IF ok /\ conn.route[p] = "model_test" THEN @
                             ELSE Answer(p, conn.route[p], NoLLM, 0,
                                         IF ok THEN "yes" ELSE "no")]
    /\ cb' = IF ok THEN OnSuccess(cb) ELSE OnFailure(cb, now)
    /\ UNCHANGED <<now, calls, last, eng, cache, bg, resp, batch,
                   redis, cres, gate, http, fb, rm>>

(* test_connection returns: status == 200, or False on any exception.      *)
(* get_health answers with it; test_model answers "Failed to connect" or   *)
(* goes on to call_llm_api                                                 *)
TestConnectionReturn(p, ok) ==
    /\ conn.stage[p] = "probing"
    /\ conn' = [conn EXCEPT
                  !.stage[p] = IF ok /\ conn.route[p] = "model_test"
                               THEN "connected" ELSE "none",
                  !.route[p] = IF ok /\ conn.route[p] = "model_test"
                               THEN @ ELSE "none",
                  !.answer = IF ok /\ conn.route[p] = "model_test" THEN @
                             ELSE Answer(p, conn.route[p], NoLLM, 0,
                                         IF ok THEN "yes" ELSE "no")]
    /\ UNCHANGED <<coreVars, redis, cres, gate, http, fb, rm>>

(* a route enters call_llm_api: the breaker check, then the request is     *)
(* prepared and the first POST issued.  `prepared` is false when           *)
(* create_prompt or get_session raises.                                    *)
RouteCallLLMApi(p, route, prepared) ==
    /\ route \in LLMRoutes
    /\ calls[p].pc = "idle"
    /\ IF route = "model_test"
       THEN conn.stage[p] = "connected" /\ conn.route[p] = route
       ELSE conn.stage[p] = "none"
    /\ IF ~CanExecute(cb, now)
       THEN /\ cb' = AfterCanExecute(cb, now)
            /\ conn' = [conn EXCEPT
                          !.stage[p] = "none", !.route[p] = "none",
                          !.answer = Answer(p, route, LLMRejected, 0, "none")]
            /\ UNCHANGED calls
       ELSE IF prepared
       THEN /\ cb' = AfterCanExecute(cb, now)
            /\ calls' = [calls EXCEPT ![p] = [pc |-> "posting", attempt |-> 0]]
            /\ conn' = [conn EXCEPT !.stage[p] = "calling", !.route[p] = route]
       ELSE /\ cb' = OnFailure(AfterCanExecute(cb, now), now)
            /\ conn' = [conn EXCEPT
                          !.stage[p] = "none", !.route[p] = "none",
                          !.probe_failures =
                              IF route \in ProbeRoutes THEN @ + 1 ELSE 0,
                          !.answer = Answer(p, route, LLMFailure("unexpected"),
                                            0, "none")]
            /\ UNCHANGED calls
    /\ UNCHANGED <<now, last, eng, cache, bg, resp, batch,
                   redis, cres, gate, http, fb, rm>>

(* the POST of a route's call answers 200 with a body that can be read *)
RouteReplyOk(p, c) ==
    /\ conn.stage[p] = "calling"
    /\ calls[p].pc = "posting"
    /\ cb' = OnSuccess(cb)
    /\ calls' = [calls EXCEPT ![p] = [pc |-> "idle", attempt |-> 0]]
    /\ conn' = [conn EXCEPT
                  !.stage[p] = "none", !.route[p] = "none",
                  !.probe_failures = 0,
                  !.answer = Answer(p, conn.route[p], LLMSuccess(c),
                                    calls[p].attempt + 1, "none")]
    /\ UNCHANGED <<now, last, eng, cache, bg, resp, batch,
                   redis, cres, gate, http, fb, rm>>

(* the POST fails before the last attempt: sleep and POST again *)
RouteReplyFailRetry(p, kind) ==
    /\ conn.stage[p] = "calling"
    /\ calls[p].pc = "posting"
    /\ calls[p].attempt < MaxRetries
    /\ calls' = [calls EXCEPT ![p].attempt = @ + 1]
    /\ UNCHANGED <<cb, now, last, eng, cache, bg, resp, batch, edgeVars>>

(* Mutant: the failures of ready and model_test calls are kept off the     *)
(* breaker that user calls consult                                         *)
RouteReplyFailFinal_ProbesApart(p, kind) ==
    /\ conn.stage[p] = "calling"
    /\ calls[p].pc = "posting"
    /\ calls[p].attempt >= MaxRetries
    /\ cb' = IF conn.route[p] \in ProbeRoutes THEN cb ELSE OnFailure(cb, now)
    /\ calls' = [calls EXCEPT ![p] = [pc |-> "idle", attempt |-> 0]]
    /\ conn' = [conn EXCEPT
                  !.stage[p] = "none", !.route[p] = "none",
                  !.probe_failures =
                      IF conn.route[p] \in ProbeRoutes THEN @ + 1 ELSE 0,
                  !.answer = Answer(p, conn.route[p], LLMFailure(kind),
                                    calls[p].attempt + 1, "none")]
    /\ UNCHANGED <<now, last, eng, cache, bg, resp, batch,
                   redis, cres, gate, http, fb, rm>>

(* the POST fails on the last attempt: on_failure, and the route gets the  *)
(* failure                                                                 *)
RouteReplyFailFinal(p, kind) ==
    /\ conn.stage[p] = "calling"
    /\ calls[p].pc = "posting"
    /\ calls[p].attempt >= MaxRetries
    /\ cb' = OnFailure(cb, now)
    /\ calls' = [calls EXCEPT ![p] = [pc |-> "idle", attempt |-> 0]]
    /\ conn' = [conn EXCEPT
                  !.stage[p] = "none", !.route[p] = "none",
                  !.probe_failures =
                      IF conn.route[p] \in ProbeRoutes THEN @ + 1 ELSE 0,
                  !.answer = Answer(p, conn.route[p], LLMFailure(kind),
                                    calls[p].attempt + 1, "none")]
    /\ UNCHANGED <<now, last, eng, cache, bg, resp, batch,
                   redis, cres, gate, http, fb, rm>>

(* the body the model's LLM answers with when it answers, and the way an   *)
(* attempt fails                                                           *)
ProbeContents == {c \in Contents : c.id = "grab90"}
ProbeFailureKinds == {"timeout"}

ProbeTickStep == 35    \* seconds per clock step while the routes run
ProbeMaxTime  == 75    \* the clock stops here: past one recovery window

ProbeTick ==
    /\ now + ProbeTickStep <= ProbeMaxTime
    /\ now' = now + ProbeTickStep
    /\ UNCHANGED <<cb, calls, last, eng, cache, bg, resp, batch, edgeVars>>

NextProbes ==
    \/ \E p \in Callers, r \in {"health", "model_test"} : TestConnection(p, r)
    \/ \E p \in Callers, ok \in BOOLEAN : TestConnectionReturn(p, ok)
    \/ \E p \in Callers, r \in LLMRoutes, prepared \in BOOLEAN :
          RouteCallLLMApi(p, r, prepared)
    \/ \E p \in Callers, c \in ProbeContents : RouteReplyOk(p, c)
    \/ \E p \in Callers, k \in ProbeFailureKinds : RouteReplyFailRetry(p, k)
    \/ \E p \in Callers, k \in ProbeFailureKinds : RouteReplyFailFinal(p, k)
    \/ ProbeTick

----------------------------------------------------------------------------
(* MetricsManager.request_metrics: what record_request keeps of the        *)
(* requests and what get_summary_stats reports of it.  The response-time   *)
(* fields, the per-status counters and the per-endpoint copies are written *)
(* by record_request and not read by requests_per_minute; they are left    *)
(* out.                                                                    *)

RequestsMaxLen == 60    \* RequestMetrics.requests_per_minute: deque(maxlen=60)
SummaryWindow  == 60    \* get_summary_stats: current_time - t <= 60
MaxRecorded    == 62    \* requests recorded in a run of the model

NoStats == -1

RequestMetricsInit ==
    [total_requests |-> 0, requests_per_minute |-> <<>>,
     last_request_time |-> NoTime, reported |-> NoStats]

(* Mutant: every request time is kept *)
RequestsAppend_Unbounded(q, x) == Append(q, x)

(* requests_per_minute.append(current_time) *)
RequestsAppend(q, x) ==
    IF Len(q) >= RequestsMaxLen THEN Append(Tail(q), x) ELSE Append(q, x)

(* record_request, called by request_logging_middleware once per response *)
RecordRequest ==
    /\ rm.total_requests < MaxRecorded
    /\ rm' = [total_requests      |-> rm.total_requests + 1,
              requests_per_minute |-> RequestsAppend(rm.requests_per_minute, now),
              last_request_time   |-> now,
              reported            |-> NoStats]
    /\ UNCHANGED <<coreVars, redis, cres, gate, http, fb, conn>>

(* get_summary_stats()["requests_per_minute"] *)
RequestsPerMinute(m, t) ==
    Len(SelectSeq(m.requests_per_minute, LAMBDA x : t - x <= SummaryWindow))

GetSummaryStats ==
    /\ rm' = [rm EXCEPT !.reported = RequestsPerMinute(rm, now)]
    /\ UNCHANGED <<coreVars, redis, cres, gate, http, fb, conn>>

MetricsTick ==
    /\ now + RateTickStep <= RateMaxTime
    /\ now' = now + RateTickStep
    /\ rm' = [rm EXCEPT !.reported = NoStats]
    /\ UNCHANGED <<cb, calls, last, eng, cache, bg, resp, batch,
                   redis, cres, gate, http, fb, conn>>

NextMetrics == RecordRequest \/ GetSummaryStats \/ MetricsTick

----------------------------------------------------------------------------
InitClient ==
    /\ cb = CircuitBreakerInit
    /\ now = 0
    /\ calls = [p \in Callers |-> [pc |-> "idle", attempt |-> 0]]
    /\ last = NoLast

EngineIdle == [text |-> <<"test">>, raw |-> FALSE, llm |-> LLMRejected,
               pc |-> "idle", out |-> NoResult]

InitApi ==
    /\ cache = <<>>
    /\ bg = {}
    /\ resp = NoResp
    /\ batch = NoBatch

InitCache == redis = <<>> /\ cres = NoCacheOp

InitHttp == gate = GateInit(DefaultRateLimit) /\ http = NoHttp

InitRoutes == conn = NoConn /\ rm = RequestMetricsInit

InitEdge == InitCache /\ InitHttp /\ fb = NoFallback /\ InitRoutes

Init == InitClient /\ eng = EngineIdle /\ InitApi /\ InitEdge

Next ==
    \/ \E p \in Callers : CallLLMApi(p)
    \/ \E p \in Callers : PrepareFails(p)
    \/ \E p \in Callers, c \in Contents : ReplyOk(p, c)
    \/ \E p \in Callers, k \in FailureKinds : ReplyFailRetry(p, k)
    \/ \E p \in Callers, k \in FailureKinds : ReplyFailFinal(p, k)
    \/ Tick

Spec == Init /\ [][Next]_vars

SpecProbes == Init /\ [][NextProbes]_vars

SpecMetrics == Init /\ [][NextMetrics]_vars

----------------------------------------------------------------------------
(* Claims about the circuit breaker and call_llm_api, under Spec *)

(* C2: once the breaker has opened on failure_threshold failures,         *)
(* can_execute() is false for every caller for as long as recovery_timeout *)
(* has not elapsed since the last recorded failure, under every            *)
(* interleaving of concurrent call_llm_api invocations.                    *)
C2_RefusesUntilRecovery ==
    [][ ( /\ cb.state = "OPEN"
          /\ cb.failure_count >= FailureThreshold
          /\ now' - cb'.last_failure_time <= RecoveryTimeout )
        => ~CanExecute(cb', now') ]_vars

(* C3: while the breaker is HalfOpen (the probe that moved it there has    *)
(* not yet reported), no other call is admitted.                           *)
C3_SingleProbe ==
    [][ cb.state = "HALF_OPEN"
        => \A p \in Callers :
              calls[p].pc = "idle" => calls'[p].pc = "idle" ]_vars

(* C4: in HalfOpen, a reported success sets failure_count to 0 and closes  *)
(* the breaker; a reported failure reopens it with last_failure_time set   *)
(* to the time of that failure.                                            *)
C4_HalfOpenOutcome ==
    [][ \A p \in Callers :
          /\ (cb.state = "HALF_OPEN" /\ \E c \in Contents : ReplyOk(p, c))
                => (cb'.failure_count = 0 /\ cb'.state = "CLOSED")
          /\ (cb.state = "HALF_OPEN" /\ \E k \in FailureKinds : ReplyFailFinal(p, k))
                => (cb'.state = "OPEN" /\ cb'.last_failure_time = now) ]_vars

(* a failure has been reported to a HalfOpen breaker *)
C4_Witness ==
    /\ last.op = "on_failure"
    /\ last.before = "HALF_OPEN"
    /\ cb.state = "OPEN"
    /\ cb.last_failure_time = now

(* a success has been reported to a HalfOpen breaker *)
C4_WitnessSuccess ==
    /\ last.op = "on_success"
    /\ last.before = "HALF_OPEN"
    /\ cb.state = "CLOSED"

(* C5: a call made while the breaker is Open and the recovery window has   *)
(* not elapsed returns the "Circuit breaker OPEN" failure, issues no POST  *)
(* (the caller does not enter the retry loop) and leaves the breaker as it *)
(* was.                                                                    *)
C5_RejectedWhileOpen ==
    [][ \A p \in Callers :
          (cb.state = "OPEN" /\ ~RecoveryElapsed(cb, now) /\ CallLLMApi(p))
          => /\ last'.caller = p
             /\ ~last'.resp.success
             /\ last'.resp.error =
                  "Circuit breaker OPEN - LLM service temporarily unavailable"
             /\ calls' = calls
             /\ cb' = cb ]_vars

(* a call has been rejected by an Open breaker inside the recovery window *)
C5_Witness ==
    /\ last.op = "rejected"
    /\ last.before = "OPEN"
    /\ cb.state = "OPEN"
    /\ ~RecoveryElapsed(cb, now)

----------------------------------------------------------------------------
NextEngine == EngineReturn \/ EngineCall

InitEngine == InitClient /\ eng \in EngineInputs /\ InitApi /\ InitEdge

SpecEngine == InitEngine /\ [][NextEngine]_vars

(* C1: analyze_intent returns the fallback result, with confidence 0.6,    *)
(* whenever the LLM client reports failure (a circuit-breaker rejection    *)
(* included) or reports success with content that is not valid JSON, lacks *)
(* intent or confidence, or names an intent outside the six labels.        *)
Unusable(llm) ==
    \/ ~llm.success
    \/ llm.content.shape = "notjson"
    \/ llm.content.shape = "object" /\ llm.content.intent = "<absent>"
    \/ llm.content.shape = "object" /\ llm.content.conf.kind = "absent"
    \/ llm.content.shape = "object" /\ llm.content.intent \notin IntentType \cup {"<absent>"}

C1_FallbackOnFailure ==
    (eng.pc = "returned" /\ Unusable(eng.llm))
    => /\ eng.out.confidence = FallbackConfidence
       /\ eng.out.intent = FallbackIntent(eng.text)
       /\ eng.out.entities = ExtractEntitiesFallback(eng.text)
       /\ eng.out.raw_text.kind = IF eng.raw THEN "fallback" ELSE "none"

(* the breaker rejected the call and the fallback classified the text *)
C1_Witness ==
    /\ eng.pc = "returned"
    /\ eng.llm = LLMRejected
    /\ eng.out.confidence = FallbackConfidence
    /\ eng.out.intent = "deliver_drink"

(* the LLM answered without a confidence and the fallback classified the text *)
C1_WitnessParse ==
    /\ eng.pc = "returned"
    /\ eng.llm.success /\ eng.llm.content.conf.kind = "absent"
    /\ eng.llm.content.intent \in IntentType
    /\ eng.out.confidence = FallbackConfidence

----------------------------------------------------------------------------
NextApi ==
    \/ \E r \in Requests, rid \in RequestIds, llm \in ApiLLMResponses, f \in BOOLEAN :
          AnalyzeIntentEndpoint(r, rid, llm, f)
    \/ \E w \in bg : BackgroundCacheSet(w)
    \/ \E inputs \in BatchInputs, par \in BOOLEAN : BatchStart(inputs, par)
    \/ \E i \in 1..MaxBatch, llm \in ApiLLMResponses, f \in BOOLEAN :
          ProcessItem(i, llm, f)
    \/ BatchRespond

SpecApi == Init /\ [][NextApi]_vars

----------------------------------------------------------------------------
(* Claims about the Intent Analysis API, under SpecApi *)

(* C6: no result that fails validate_result is ever in the cache, and      *)
(* POST /v1/intent/analyze never answers 200 with such a result.           *)
C6_OnlyValidResults ==
    /\ \A k \in DOMAIN cache : ValidateResult(cache[k].data)
    /\ (resp.endpoint = "analyze" /\ resp.status = 200)
          => ValidateResult(resp.results[1].result)

(* C7: a response of POST /v1/intent/analyze carries a raw_text only if    *)
(* that request set include_raw_response.                                  *)
C7_RawTextOnlyOnRequest ==
    (resp.endpoint = "analyze" /\ resp.status = 200
        /\ resp.results[1].result.raw_text # NoRaw)
    => resp.inputs[1].raw

(* C8: when the engine raises during POST /v1/intent/analyze the response  *)
(* is a 500 whose error is "InternalServerError" and whose message does    *)
(* not carry the text of the exception.                                    *)
C8_EngineErrorResponse ==
    (resp.endpoint = "analyze" /\ resp.raised)
    => /\ resp.status = 500
       /\ resp.error = "InternalServerError"
       /\ resp.message # EngineError

(* C9: the response of a parallel batch of N inputs has N results, N =     *)
(* total_processed = success_count + error_count, and results[i] is the    *)
(* result of inputs[i], whatever order the inputs were processed in.       *)
C9_BatchOrderAndCounts ==
    (resp.endpoint = "batch" /\ resp.parallel)
    => /\ resp.status = 200
       /\ Len(resp.results) = Len(resp.inputs)
       /\ resp.total_processed = Len(resp.inputs)
       /\ resp.success_count + resp.error_count = Len(resp.inputs)
       /\ \A i \in 1..Len(resp.inputs) :
             /\ i \in DOMAIN resp.results
             /\ resp.results[i].src = i
             /\ (~resp.results[i].cached
                   /\ "error" \notin DOMAIN resp.results[i].result.entities)
                => (resp.results[i].result.raw_text # NoRaw <=> resp.inputs[i].raw)

(* a parallel batch of two different inputs, the second processed first *)
C9_Witness ==
    /\ resp.endpoint = "batch" /\ resp.parallel
    /\ Len(resp.inputs) = 2
    /\ resp.inputs[1] # resp.inputs[2]
    /\ resp.order = <<2, 1>>
    /\ resp.results[1] # resp.results[2]

(* C10: every batch item whose processing raised is answered by the        *)
(* synthesized result (grab_drink, confidence 0.0, entities.error) and is  *)
(* counted in error_count, not in success_count.                           *)
C10_FailedItemsCounted ==
    resp.endpoint = "batch"
    => LET failed == {i \in 1..Len(resp.results) :
                        "error" \in DOMAIN resp.results[i].result.entities}
       IN  /\ \A i \in failed : /\ resp.results[i].result.intent = "grab_drink"
                                /\ resp.results[i].result.confidence = 0
           /\ resp.error_count = Cardinality(failed)
           /\ resp.success_count = Len(resp.results) - Cardinality(failed)

----------------------------------------------------------------------------
(* The single-analysis endpoint alone, with its deferred cache writes and  *)
(* the passage of time up to and beyond the cache TTL                      *)

NextAnalyze ==
    \/ \E r \in Requests, rid \in RequestIds, llm \in ApiLLMResponses, f \in BOOLEAN :
          AnalyzeIntentEndpoint(r, rid, llm, f)
    \/ \E w \in bg : BackgroundCacheSet(w)
    \/ CacheTick

SpecAnalyze == Init /\ [][NextAnalyze]_vars

(* C11: POST /v1/intent/analyze answers a request whose (text, context)    *)
(* has an unexpired cache entry with that cached result, cached=true and   *)
(* the current request's id, without invoking the engine; otherwise it     *)
(* invokes the engine exactly once and answers either 200 with a valid     *)
(* result and cached=false, or 500.                                        *)
C11_HitOrSingleEngineCall ==
    [][ \A req \in Requests, rid \in RequestIds,
           llm \in ApiLLMResponses, f \in BOOLEAN :
          AnalyzeIntentEndpoint(req, rid, llm, f)
          => LET k == GenerateCacheKey(req.text, req.context)
             IN  IF k \in DOMAIN cache /\ now - cache[k].ts <= CacheTTL
                 THEN /\ resp'.status = 200
                      /\ resp'.results[1].result = cache[k].data
                      /\ resp'.results[1].cached
                      /\ resp'.request_id = rid
                      /\ resp'.engine_calls = 0
                 ELSE /\ resp'.engine_calls = 1
                      /\ resp'.request_id = rid
                      /\ \/ resp'.status = 500
                         \/ /\ resp'.status = 200
                            /\ ValidateResult(resp'.results[1].result)
                            /\ ~resp'.results[1].cached ]_vars

(* a request was answered from the cache, and the engine was not invoked *)
C11_Witness ==
    /\ resp.endpoint = "analyze" /\ resp.status = 200
    /\ resp.results[1].cached
    /\ resp.engine_calls = 0
    /\ resp.request_id \in RequestIds
    /\ GenerateCacheKey(resp.inputs[1].text, resp.inputs[1].context) \in DOMAIN cache

(* C11 as stated: on a miss the engine is invoked exactly once and a valid *)
(* result is returned with cached=false.                                   *)
C11_MissAlwaysReturnsValid ==
    [][ \A req \in Requests, rid \in RequestIds,
           llm \in ApiLLMResponses, f \in BOOLEAN :
          AnalyzeIntentEndpoint(req, rid, llm, f)
          => LET k == GenerateCacheKey(req.text, req.context)
             IN  IF k \in DOMAIN cache /\ now - cache[k].ts <= CacheTTL
                 THEN /\ resp'.status = 200
                      /\ resp'.results[1].result = cache[k].data
                      /\ resp'.results[1].cached
                      /\ resp'.request_id = rid
                      /\ resp'.engine_calls = 0
                 ELSE /\ resp'.engine_calls = 1
                      /\ resp'.status = 200
                      /\ ValidateResult(resp'.results[1].result)
                      /\ ~resp'.results[1].cached ]_vars

----------------------------------------------------------------------------
(* CacheService.get and CacheService.set called directly, with the remote  *)
(* store available or not at each call, and the passage of time            *)

NextCache ==
    \/ \E t \in CacheTexts, c \in CacheContexts, up \in BOOLEAN :
          CacheServiceGet(t, c, up)
    \/ \E t \in CacheTexts, c \in CacheContexts, r \in CacheResults, up \in BOOLEAN :
          CacheServiceSet(t, r, c, up)
    \/ CacheTick

SpecCache == Init /\ [][NextCache]_vars

(* C12: a get that immediately follows set(text, result, context), with    *)
(* the same text and context and with the tier that took the write still   *)
(* reachable, returns a result with the stored intent, confidence and      *)
(* entities, and with the stored raw_text when that was not None.          *)
C12_SetThenGet ==
    [][ \A t \in CacheTexts, c \in CacheContexts, up \in BOOLEAN :
          ( /\ cres.op = "set" /\ cres.text = t /\ cres.context = c
            /\ (cres.tier = "redis" => up)
            /\ CacheServiceGet(t, c, up) )
          => /\ cres'.result.intent = cres.result.intent
             /\ cres'.result.confidence = cres.result.confidence
             /\ cres'.result.entities = cres.result.entities
             /\ (cres.result.raw_text # NoRaw
                   => cres'.result.raw_text = cres.result.raw_text) ]_vars

(* C13: different (text, context) pairs have different cache keys, so a    *)
(* get of a text under another context than the one it was just stored     *)
(* under (nothing else being stored for the text) is a miss.               *)
C13_ContextIsolation ==
    [][ ( /\ cres.op = "set" /\ cres.branch = "fresh"
          /\ cres'.op = "get" /\ cres'.text = cres.text
          /\ cres'.context # cres.context )
        => cres'.result = NoResult ]_vars

(* C14: a get that reaches the local map more than CACHE_TTL seconds after *)
(* the entry was created returns absent and removes the entry; up to then  *)
(* it returns the entry; no get changes the creation time of any entry.    *)
C14_LocalExpiry ==
    [][ \A t \in CacheTexts, c \in CacheContexts, up \in BOOLEAN :
          CacheServiceGet(t, c, up)
          => LET k == GenerateCacheKey(t, c)
             IN  /\ (cres'.tier = "local" /\ k \in DOMAIN cache
                        /\ now - cache[k].ts > CacheTTL)
                     => (cres'.result = NoResult /\ k \notin DOMAIN cache')
                 /\ (cres'.tier = "local" /\ k \in DOMAIN cache
                        /\ now - cache[k].ts <= CacheTTL)
                     => (cres'.result = cache[k].data /\ k \in DOMAIN cache')
                 /\ \A j \in DOMAIN cache' :
                        j \in DOMAIN cache /\ cache'[j].ts = cache[j].ts ]_vars

(* a get found a local entry older than CACHE_TTL, reported it absent and  *)
(* removed it                                                              *)
C14_Witness ==
    /\ cres.op = "get" /\ cres.tier = "local" /\ cres.branch = "expired"
    /\ cres.result = NoResult
    /\ GenerateCacheKey(cres.text, cres.context) \notin DOMAIN cache
    /\ now > CacheTTL

----------------------------------------------------------------------------
(* The rate-limit gate under load: one client, one gated route, and a      *)
(* configured RATE_LIMIT below, and above, the capacity of the deque       *)

RateLimits == {1, 2, BigLimit}

LoadClient == "10.0.0.1"

InitRateLimit ==
    /\ InitClient /\ eng = EngineIdle /\ InitApi /\ InitCache /\ fb = NoFallback
    /\ InitRoutes
    /\ gate \in {GateInit(l) : l \in RateLimits}
    /\ http = NoHttp

NextRateLimit ==
    \/ /\ Len(RequestsOf(gate.admitted, LoadClient)) < MaxLoad
       /\ ServeOther(LoadClient, "req-1", "/v1/intent/analyze", 200)
    \/ RateTick

SpecRateLimit == InitRateLimit /\ [][NextRateLimit]_vars

(* requests of ip let through less than 60 seconds ago *)
InWindow(ip) ==
    LET adm == RequestsOf(gate.admitted, ip)
    IN  Cardinality({i \in 1..Len(adm) : now - adm[i] < RateWindow})

(* C15: whatever the configured limit L, a request of an IP of which L     *)
(* requests were let through inside the current 60-second window is        *)
(* rejected by the gate with status 429.                                   *)
C15_RejectsAboveLimit ==
    [][ \A ip \in IPs, rid \in RequestIds :
          ( /\ InWindow(ip) >= gate.limit
            /\ \E st \in {200, 500} : ServeOther(ip, rid, "/v1/intent/analyze", st) )
          => http'.status = 429 ]_vars

----------------------------------------------------------------------------
(* The middleware stack in front of the health, readiness, metrics and     *)
(* analysis routes, for two clients and small configured limits            *)

HttpLimits == {1, 2}

InitHttpStack ==
    /\ InitClient /\ eng = EngineIdle /\ InitApi /\ InitCache /\ fb = NoFallback
    /\ InitRoutes
    /\ gate \in {GateInit(l) : l \in HttpLimits}
    /\ http = NoHttp

NextHttp ==
    \/ \E ip \in IPs, rid \in RequestIds, path \in {"/v1/health", "/health"},
          l \in BOOLEAN, c \in BOOLEAN : ServeHealth(ip, rid, path, l, c)
    \/ \E ip \in IPs, rid \in RequestIds, llm \in LLMResponses, f \in BOOLEAN :
          ServeReady(ip, rid, llm, f)
    \/ \E ip \in IPs, rid \in RequestIds, path \in {"/metrics", "/v1/intent/analyze"},
          st \in {200, 500} : ServeOther(ip, rid, path, st)
    \/ RateTick

SpecHttp == InitHttpStack /\ [][NextHttp]_vars

(* C16: a request to /v1/health, /health or /metrics is never answered 429 *)
(* and leaves the rate-limit records of every client as they were, however *)
(* many requests the client has made.                                      *)
C16_ObservabilityBypass ==
    [][ ( /\ http'.path \in {"/v1/health", "/health", "/metrics"}
          /\ <<http, gate>>' # <<http, gate>> )
        => /\ http'.status # 429
           /\ gate'.requests = gate.requests ]_vars

(* a client whose quota is used up is still served on /metrics *)
C16_Witness ==
    /\ http.path = "/metrics" /\ http.status = 200
    /\ Len(RequestsOf(gate.requests, http.ip)) = gate.limit
    /\ \A i \in 1..gate.limit : now - gate.requests[http.ip][i] <= RateWindow

(* C17: every response carries the request-id header and the processing-   *)
(* time header, the 429 of the rate-limit gate included.                   *)
C17_HeadersOnEveryResponse ==
    http # NoHttp => {"X-Request-ID", "X-Process-Time"} \subseteq http.headers

(* C19: GET /v1/health answers 200 "healthy" for every LLM connectivity    *)
(* and cache health, and the answers with and without LLM connectivity     *)
(* differ in llm_connection only.                                          *)
C19_AlwaysHealthy ==
    /\ http.path = "/v1/health"
          => (http.status = 200 /\ http.body = "healthy")
    /\ \A c \in BOOLEAN :
          /\ GetHealth("/v1/health", FALSE, c).llm_connection = FALSE
          /\ GetHealth("/v1/health", TRUE, c).llm_connection = TRUE
          /\ [GetHealth("/v1/health", FALSE, c) EXCEPT !.llm_connection = TRUE]
                = GetHealth("/v1/health", TRUE, c)

(* the health endpoint answered while the LLM was unreachable *)
C19_Witness ==
    /\ http.path = "/v1/health" /\ http.status = 200
    /\ ~http.llm_connection /\ ~http.cache_connection

(* C20: GET /v1/ready answers 200 "ready" whenever the engine call for     *)
(* "test" returned a result, whatever the LLM client reported, and answers *)
(* 503 "not_ready" only when that call raised.                             *)
C20_ReadyUnlessEngineRaises ==
    http.path = "/v1/ready"
    => /\ http.engine = "returned" => (http.status = 200 /\ http.body = "ready")
       /\ http.status = 503 => (http.engine = "raised" /\ http.body = "not_ready")
       /\ http.status \in {200, 429, 503}

(* readiness was answered 200 from a fallback result *)
C20_Witness ==
    /\ http.path = "/v1/ready" /\ http.status = 200 /\ http.body = "ready"
    /\ http.engine = "returned"

----------------------------------------------------------------------------
(* _fallback_analysis called on every text of FallbackTexts *)

InitFallback ==
    /\ InitClient /\ eng = EngineIdle /\ InitApi /\ InitCache /\ InitHttp
    /\ InitRoutes
    /\ fb \in FallbackInputs

NextFallback == FallbackReturn

SpecFallback == InitFallback /\ [][NextFallback]_vars

C18_Priority == <<"deliver_drink", "recommend_drink", "cancel_order",
                  "query_status", "modify_order">>

C18_Keywords ==
    [deliver_drink   |-> {"zh_song", "zh_disong", "zh_songdao", "zh_songgei",
                          "zh_nagei", "deliver", "bring", "take to"},
     recommend_drink |-> {"zh_tuijian", "zh_jianyi", "zh_shenme", "zh_youmeiyou",
                          "zh_qingshuang", "zh_tishen", "zh_nuanwei", "zh_jieni",
                          "recommend", "suggest", "what", "refreshing", "energizing"},
     cancel_order    |-> {"zh_quxiao", "zh_suanle", "zh_buyaole", "zh_chexiao",
                          "zh_buyao", "cancel", "never mind", "forget"},
     query_status    |-> {"zh_haolema", "zh_zuohaole", "zh_wanchengle", "zh_zhuangtai",
                          "zh_jindu", "zh_zenmeyangle", "ready", "done", "finished",
                          "status", "how"},
     modify_order    |-> {"zh_gaicheng", "zh_huancheng", "zh_xiugai", "zh_gaiwei",
                          "zh_biancheng", "change", "modify", "switch"}]

(* the sets, by rank, of which the text contains a keyword *)
C18_Matching(text) ==
    {n \in 1..5 : \E i \in 1..Len(text) :
                     \E k \in C18_Keywords[C18_Priority[n]] : k \in Parts(text[i])}

C18_Permutations(n) ==
    {p \in [1..n -> 1..n] : \A i, j \in 1..n : p[i] = p[j] => i = j}

(* C18: the fallback intent is that of the first keyword set, in the order *)
(* deliver_drink, recommend_drink, cancel_order, query_status,             *)
(* modify_order, of which the text contains a keyword, grab_drink if there *)
(* is none, and is the same for every reordering of the text.              *)
C18_PriorityOrder ==
    fb.pc = "returned"
    => LET m == C18_Matching(fb.text)
       IN  /\ fb.intent = IF m = {} THEN "grab_drink"
                          ELSE C18_Priority[CHOOSE n \in m : \A k \in m : n <= k]
           /\ \A p \in C18_Permutations(Len(fb.text)) :
                 FallbackIntent([i \in 1..Len(fb.text) |-> fb.text[p[i]]]) = fb.intent

(* a lower-priority keyword precedes a higher-priority one in the text *)
C18_Witness ==
    /\ fb.pc = "returned"
    /\ fb.text = <<"zh_gaicheng", "cancel", "zh_songdao">>
    /\ fb.intent = "deliver_drink"

----------------------------------------------------------------------------
(* The retry loop of call_llm_api *)

(* C21: an admitted call makes at most max_retries + 1 POSTs and reports   *)
(* one outcome to the breaker when it returns: on_success at the first 200 *)
(* whose body can be read (the call then returns), on_failure after        *)
(* max_retries + 1 failed attempts, or on_failure with no attempt when the *)
(* request could not be prepared.  A failed attempt that is retried leaves *)
(* the breaker as it was.                                                  *)
C21_OneOutcomePerCall ==
    [][ \A p \in Callers :
          /\ calls[p].attempt <= MaxRetries
          /\ (calls[p].pc = "posting" /\ calls'[p] # calls[p]) =>
                \/ /\ calls[p].attempt < MaxRetries
                   /\ calls'[p] = [pc |-> "posting", attempt |-> calls[p].attempt + 1]
                   /\ cb' = cb
                   /\ last' = last
                \/ /\ calls'[p].pc = "idle"
                   /\ last'.caller = p
                   /\ last'.op = "on_success"
                   /\ last'.attempts = calls[p].attempt + 1
                   /\ cb' = OnSuccess(cb)
                \/ /\ calls'[p].pc = "idle"
                   /\ last'.caller = p
                   /\ last'.op = "on_failure"
                   /\ calls[p].attempt = MaxRetries
                   /\ last'.attempts = MaxRetries + 1
                   /\ cb' = OnFailure(cb, now)
          /\ (last' # last /\ last'.caller = p /\ last'.op = "on_failure")
                => last'.attempts \in {0, MaxRetries + 1} ]_vars

(* a call succeeded at its second POST, after one failed attempt that was  *)
(* retried, and the breaker holds the success                              *)
C21_Witness ==
    /\ last.op = "on_success"
    /\ last.attempts = 2
    /\ cb.failure_count = 0
    /\ cb.state = "CLOSED"

(* C21 as stated: every HTTP 200 is reported as a success and ends the     *)
(* call, and a failure is reported only after max_retries + 1 attempts     *)
C21_SuccessAtFirst200 ==
    [][ \A p \in Callers :
          /\ ( \/ \E c \in Contents : ReplyOk(p, c)
               \/ ReplyFailRetry(p, "malformed200")
               \/ ReplyFailFinal(p, "malformed200") )
                => (calls'[p].pc = "idle" /\ last'.op = "on_success")
          /\ (last' # last /\ last'.caller = p /\ last'.op = "on_failure")
                => last'.attempts = MaxRetries + 1 ]_vars

----------------------------------------------------------------------------
(* Invariants of the breaker record *)

(* C24: whenever the breaker is Open, last_failure_time is set: the only   *)
(* step that opens the breaker is on_failure, which records the time       *)
(* before it tests the threshold.                                          *)
C24_OpenHasFailureTime ==
    cb.state = "OPEN" => (cb.last_failure_time # NoTime /\ cb.last_failure_time <= now)

(* the fifth consecutive failure has just opened a Closed breaker *)
C24_Witness ==
    /\ cb.state = "OPEN"
    /\ last.op = "on_failure"
    /\ last.before = "CLOSED"
    /\ cb.failure_count = FailureThreshold
    /\ cb.last_failure_time = now

(* C28: under any interleaving of concurrent calls, a Closed breaker has   *)
(* failure_count below failure_threshold, and an Open or HalfOpen breaker  *)
(* has failure_count at or above it.                                       *)
C28_CountAgreesWithState ==
    /\ cb.state \in {"CLOSED", "OPEN", "HALF_OPEN"}
    /\ cb.state = "CLOSED" => cb.failure_count < FailureThreshold
    /\ cb.state \in {"OPEN", "HALF_OPEN"} => cb.failure_count >= FailureThreshold

(* a call that was in flight when the breaker opened has failed as well:   *)
(* the count has passed the threshold, and the breaker has since moved to  *)
(* HalfOpen                                                                *)
C28_Witness ==
    /\ cb.state = "HALF_OPEN"
    /\ cb.failure_count > FailureThreshold

(* a success reported to a HalfOpen breaker has closed it and reset the    *)
(* count                                                                   *)
C28_WitnessClosed ==
    /\ cb.state = "CLOSED"
    /\ cb.failure_count = 0
    /\ last.op = "on_success"
    /\ last.before = "HALF_OPEN"
    /\ last.attempts > 1

----------------------------------------------------------------------------
(* The routes on the one breaker *)

(* C25: test_connection neither consults nor changes the breaker: a caller *)
(* that is on no route can enter it whatever the breaker's state, Open     *)
(* included, and neither entering it nor its return (200 or not) changes   *)
(* state, failure_count or last_failure_time.                              *)
C25_ProbeLeavesBreaker ==
    /\ [](\A p \in Callers :
            conn.stage[p] = "none" => ENABLED TestConnection(p, "health"))
    /\ [][ \A p \in Callers :
             (conn'.stage[p] # conn.stage[p]
                /\ "probing" \in {conn.stage[p], conn'.stage[p]})
             => cb' = cb ]_vars

(* a health probe has come back failed while the breaker is Open and       *)
(* inside the recovery window, and the breaker is as it was                *)
C25_Witness ==
    /\ conn.answer.route = "health"
    /\ conn.answer.connectivity = "no"
    /\ conn.answer.before = "OPEN"
    /\ cb.state = "OPEN"
    /\ ~RecoveryElapsed(cb, now)

(* a probe has come back 200 while the breaker is Open, which stays Open *)
C25_WitnessSuccess ==
    /\ conn.answer.route = "health"
    /\ conn.answer.connectivity = "yes"
    /\ conn.answer.before = "OPEN"
    /\ cb.state = "OPEN"

(* C27: the failures of the LLM calls made for GET /v1/ready and for POST  *)
(* /v1/models/{id}/test are counted by the breaker that user calls         *)
(* consult: the breaker's count is at least the number of such failures in *)
(* a row, the fifth of them leaves the breaker Open, and a request to      *)
(* /v1/intent/analyze that arrives while it is Open (recovery window not   *)
(* elapsed) gets the fallback result with no POST issued.                  *)
C27_ProbeFailuresOpenBreaker ==
    /\ [](cb.failure_count >= conn.probe_failures)
    /\ [][ /\ (conn'.probe_failures > conn.probe_failures
               /\ conn'.probe_failures >= FailureThreshold)
              => cb'.state = "OPEN"
           /\ \A p \in Callers :
                (/\ conn.probe_failures >= FailureThreshold
                 /\ cb.state = "OPEN" /\ ~RecoveryElapsed(cb, now)
                 /\ \E prepared \in BOOLEAN : RouteCallLLMApi(p, "analyze", prepared))
                => /\ conn'.answer.caller = p
                   /\ conn'.answer.route = "analyze"
                   /\ conn'.answer.attempts = 0
                   /\ conn'.answer.llm = LLMRejected
                   /\ conn'.answer.result =
                        FallbackAnalysis(UserText, LLMRejected.error, FALSE)
                   /\ calls' = calls
                   /\ cb' = cb ]_vars

(* five failures in a row of ready and model_test calls have opened the    *)
(* breaker, and a user request was then answered by the fallback           *)
C27_Witness ==
    /\ conn.probe_failures >= FailureThreshold
    /\ cb.state = "OPEN"
    /\ ~RecoveryElapsed(cb, now)
    /\ conn.answer.route = "analyze"
    /\ conn.answer.llm = LLMRejected
    /\ conn.answer.attempts = 0
    /\ conn.answer.result.confidence = FallbackConfidence

----------------------------------------------------------------------------
(* The deferred cache write of the single-analysis endpoint *)

(* C22: on a miss POST /v1/intent/analyze responds before the result is    *)
(* stored: the handler leaves the write among the background tasks and     *)
(* puts no entry in the cache.  A request for the same (text, context)     *)
(* handled while that write is still pending finds no entry, invokes the   *)
(* engine again and is not answered cached=true; once the write has run    *)
(* the entry is there, and a request that finds it is answered from it     *)
(* with cached=true and no engine call.                                    *)
C22_WriteAfterResponse ==
    [][ /\ \A req \in Requests, rid \in RequestIds,
              llm \in ApiLLMResponses, f \in BOOLEAN :
             AnalyzeIntentEndpoint(req, rid, llm, f)
             => LET k    == GenerateCacheKey(req.text, req.context)
                    live == k \in DOMAIN cache /\ now - cache[k].ts <= CacheTTL
                IN  /\ k \in DOMAIN cache' => (k \in DOMAIN cache /\ cache'[k] = cache[k])
                    /\ (resp'.status = 200 /\ ~live)
                         => /\ Write(req, resp'.results[1].result) \in bg'
                            /\ ~resp'.results[1].cached
                    /\ (~live /\ \E w \in bg : GenerateCacheKey(w.text, w.context) = k)
                         => /\ resp'.engine_calls = 1
                            /\ resp'.status = 200 => ~resp'.results[1].cached
                    /\ live => /\ resp'.status = 200
                                /\ resp'.results[1].cached
                                /\ resp'.results[1].result = cache[k].data
                                /\ resp'.engine_calls = 0
       /\ \A w \in bg :
             BackgroundCacheSet(w)
             => LET k == GenerateCacheKey(w.text, w.context)
                IN  /\ k \in DOMAIN cache'
                    /\ cache'[k] = [data |-> w.result, ts |-> now] ]_vars

(* two requests for one (text, context) were both answered cached=false:   *)
(* the write of the first was still pending when the second was handled    *)
C22_Witness ==
    /\ resp.endpoint = "analyze" /\ resp.status = 200
    /\ ~resp.results[1].cached
    /\ resp.engine_calls = 1
    /\ \E w1, w2 \in bg :
          /\ w1 # w2
          /\ GenerateCacheKey(w1.text, w1.context) = GenerateCacheKey(w2.text, w2.context)
          /\ w2 = Write(resp.inputs[1], resp.results[1].result)
          /\ GenerateCacheKey(w1.text, w1.context) \notin DOMAIN cache

(* the deferred write has run and the next request was answered from it *)
C22_WitnessHit ==
    /\ resp.endpoint = "analyze" /\ resp.status = 200
    /\ resp.results[1].cached
    /\ bg = {}
    /\ now = 0

----------------------------------------------------------------------------
(* What the rate-limit gate records *)

(* C23: check_rate_limit records the time of admitted requests only.  A    *)
(* request answered 429 leaves the queue of its client as it was; an       *)
(* admitted request puts the current time at the end of the queue; and a   *)
(* client whose oldest recorded request is more than 60 seconds old is     *)
(* admitted, however many of its requests were rejected in between.        *)
C23_RejectedNotRecorded ==
    [][ (http'.path \notin ExemptPaths /\ <<http, gate>>' # <<http, gate>>)
        => LET q  == RequestsOf(gate.requests, http'.ip)
               q2 == RequestsOf(gate'.requests, http'.ip)
           IN  /\ http'.status = 429 => q2 = q
               /\ http'.status # 429 => (q2 # <<>> /\ q2[Len(q2)] = now
                                           /\ Len(q2) <= Len(q) + 1)
               /\ (q # <<>> /\ now - Head(q) > RateWindow) => http'.status # 429
               /\ \A ip \in IPs \ {http'.ip} :
                     RequestsOf(gate'.requests, ip) = RequestsOf(gate.requests, ip)
      ]_vars

(* a client that used up its quota was rejected at a later time, and its   *)
(* queue holds the times of the admitted requests only                     *)
C23_Witness ==
    /\ http.status = 429
    /\ LET q == RequestsOf(gate.requests, http.ip)
       IN  /\ Len(q) = gate.limit
           /\ \A i \in 1..Len(q) : q[i] < now /\ now - q[i] <= RateWindow

(* a client blocked during the first window is admitted once that window   *)
(* has passed                                                              *)
C23_WitnessReadmitted ==
    /\ http.status = 200 /\ http.path = "/v1/intent/analyze"
    /\ gate.limit = 1
    /\ now > RateWindow
    /\ RequestsOf(gate.requests, http.ip) = <<now>>

(* C29: the queue of a client never holds more than 100 times, whatever    *)
(* limit_per_minute is; with limit_per_minute above 100 the length test    *)
(* of check_rate_limit therefore always passes and no request is rejected. *)
C29_QueueCapped ==
    /\ \A ip \in DOMAIN gate.requests : Len(gate.requests[ip]) <= DequeMaxLen
    /\ gate.limit > DequeMaxLen
         => /\ http.status # 429
            /\ \A ip \in IPs : CheckRateLimit(gate.requests, ip, gate.limit, now)

(* with a limit of 101, more than 101 requests of one client were admitted *)
(* inside one window and its queue holds 100 times                         *)
C29_Witness ==
    /\ gate.limit = BigLimit
    /\ http.status = 200
    /\ Len(RequestsOf(gate.requests, LoadClient)) = DequeMaxLen
    /\ Len(RequestsOf(gate.admitted, LoadClient)) > BigLimit
    /\ \A i \in 1..DequeMaxLen : now - gate.requests[LoadClient][i] <= RateWindow

----------------------------------------------------------------------------
(* Letter case in the fallback *)

(* C26: the fallback classifies a text as it classifies the lower-case     *)
(* form of the text: "Cancel my order" as "cancel my order".               *)
C26_CaseInsensitive ==
    fb.pc = "returned" => fb.intent = FallbackIntent(LowerText(fb.text))

----------------------------------------------------------------------------
(* The request rate of the summary *)

(* C30: the requests_per_minute that get_summary_stats reports is never    *)
(* above 60, however many requests were recorded during the last 60        *)
(* seconds: record_request keeps the times of the 60 most recent requests  *)
(* only.                                                                   *)
C30_RateAtMostSixty ==
    /\ Len(rm.requests_per_minute) <= RequestsMaxLen
    /\ Len(rm.requests_per_minute) = IF rm.total_requests < RequestsMaxLen
                                     THEN rm.total_requests ELSE RequestsMaxLen
    /\ rm.reported # NoStats
         => /\ rm.reported <= RequestsMaxLen
            /\ rm.reported = RequestsPerMinute(rm, now)

(* more than 60 requests were recorded at one instant, and the summary     *)
(* taken at that instant reports 60                                        *)
C30_Witness ==
    /\ rm.total_requests > RequestsMaxLen
    /\ rm.last_request_time = now
    /\ rm.requests_per_minute = [i \in 1..RequestsMaxLen |-> now]
    /\ rm.reported = RequestsMaxLen

====
